---- MODULE Spec2Model ----
(***************************************************************************)
(* autogit-daemon: the arbitration loop of run_daemon, the startup         *)
(* reconciliation of main, the per-connection IPC handlers of socket.rs    *)
(* and the tray state they report to.                                      *)
(*                                                                         *)
(* A repository sync (git::check_and_commit, git::initialize_repository)   *)
(* is an awaited spawn_blocking task: it has a begin step and an end step, *)
(* and everything that runs on another task may happen in between.         *)
(***************************************************************************)
EXTENDS Integers, Sequences, FiniteSets, TLC

\* ---- bounds of the explored input space ----
NumPaths == 2
MaxRepos == 2
MaxInterval == 2
MaxConns == 2
\* the environment produces budget of total weight MaxInputs at most (one more under
\* SpecScenario): a modification of the configuration file weighs ReloadCost, every
\* other input 1
MaxInputs == 2
ReloadCost == 2
\* under SpecLive the timer stops firing once the tray's error count has reached MaxErrors
MaxErrors == 1
\* a commit message template is made of at most MaxPieces pieces, formatted at one of
\* MaxInstants instants
MaxPieces == 2
MaxInstants == 2

\* ---- program constants ----
ChannelCapacity == 10

\* Option<T>: None is the empty set, Some(x) the singleton
None == {}
Some(x) == {x}
The(o) == CHOOSE x \in o : TRUE

Paths == 1..NumPaths
Repository == [path : Paths, auto_commit : BOOLEAN]
RepoLists == UNION {[1..n -> Repository] : n \in 0..MaxRepos}
DaemonConfig == [check_interval_seconds : 0..MaxInterval, enable_tray : BOOLEAN]
Config == [daemon : DaemonConfig, repositories : RepoLists]

TrayActions == {"TriggerSync", "ToggleSuspend", "Quit"}
Signals == {"SIGTERM", "SIGINT"}
Commands == {"ping", "status", "trigger"}
\* what read_line yields: a command, nothing (peer closed), or a line that
\* Command::from_json rejects
Lines == Commands \cup {"", "garbage"}
Outcomes == {"committed", "clean", "error"}

VARIABLES
    config,      \* Arc<RwLock<Config>>
    suspended,   \* Arc<AtomicBool>
    tray_handle, \* Arc<RwLock<Option<Handle<AutogitTray>>>>: None or the TrayState
    interval,    \* tokio Interval: its period, the number of due ticks, and whether the
                 \* tick that a new Interval completes at once is still among them
    pc,          \* position of main / run_daemon
    idx,         \* position of the for loop the main task is in
    loopSync,    \* the repository the main task is awaiting a sync of
    any_errors,  \* local of the sync cycle
    new_config,  \* local of the reload branch
    initLog,     \* paths handed to initialize_repository by main, or by the current reload
    signals,     \* delivered, unhandled termination signals
    reload_rx,   \* number of queued reload notifications
    tray_action_rx, \* queued tray actions
    conns,       \* one entry per client connection
    handled,     \* the event the loop handled last (what its log shows)
    resumed,     \* a ToggleSuspend has turned suspension off
    tickCredit,  \* since the last resume: ticks that fired minus automatic cycles run
    cycleLog,    \* paths handed to check_and_commit by the sync cycle the loop is in
    erred,       \* a check_and_commit of the loop's current or last cycle returned Err
    budget,      \* the weight of the budget the environment may still produce
    socket_file, \* socket_path(): "none", a "file", or a file "stuck" after a failed removal
    runtime,     \* the tokio runtime of main: "running", or "shutdown" once main has returned
    git,         \* one run of the sync engine of git.rs on one repository
    config_file, \* what the configuration file holds
    commit_message \* one call of format_commit_message: template, instant, result

vars == <<config, suspended, tray_handle, interval, pc, idx, loopSync, any_errors,
          new_config, initLog, signals, reload_rx, tray_action_rx, conns, handled,
          resumed, tickCredit, cycleLog, erred, budget, socket_file, runtime, git, config_file,
          commit_message>>

loopVars == <<pc, idx, loopSync, any_errors, new_config, initLog>>
envVars == <<signals, reload_rx, tray_action_rx, budget>>
histVars == <<handled, resumed, tickCredit, cycleLog, erred>>
extVars == <<socket_file, runtime, git, config_file, commit_message>>

\* ---- helpers ----

\* `if !repo.auto_commit { continue; }`
EligibleAlways(repo) == TRUE
Eligible(repo) == repo.auto_commit

\* index of the first repository at or after i that the for loop does not skip
RECURSIVE NextEligible(_, _)
NextEligible(repos, i) ==
    IF i > Len(repos) THEN i
    ELSE IF Eligible(repos[i]) THEN i
    ELSE NextEligible(repos, i + 1)

\* new_config.repositories.iter().filter(|n| !old.iter().any(|o| o.path == n.path))
NewReposByEntry(old, new) ==
    SelectSeq(new.repositories,
              LAMBDA n : ~\E k \in 1..Len(old.repositories) : old.repositories[k] = n)
NewRepos(old, new) ==
    SelectSeq(new.repositories,
              LAMBDA n : ~\E k \in 1..Len(old.repositories) : old.repositories[k].path = n.path)

\* AutogitTray::new
NewTray(repo_count) ==
    [status |-> "Idle", last_sync |-> FALSE, repo_count |-> repo_count, error_count |-> 0]

set_status(t, s) == {[x EXCEPT !.status = s] : x \in t}
set_last_sync(t) == {[x EXCEPT !.last_sync = TRUE, !.status = "Idle"] : x \in t}
increment_errors(t) == {[x EXCEPT !.error_count = @ + 1, !.status = "Error"] : x \in t}
set_repo_count(t, n) == {[x EXCEPT !.repo_count = n] : x \in t}

NoResponse == [status |-> "", data |-> [type |-> "none"]]
NoConn == [st |-> "none", line |-> "", idx |-> 0, sync |-> None, susp |-> FALSE,
           details |-> <<>>, resp |-> NoResponse]
\* the task has ended with Ok(()) and the stream is dropped
Closed == [NoConn EXCEPT !.st = "closed"]
\* the task has ended with Err, which handle_connection logs, and the stream is dropped
Failed == [NoConn EXCEPT !.st = "failed"]

Terminal == pc \in {"done", "panic", "fatal"}
InLoop == pc \in {"select", "cycle", "reload", "write"}

\* the syncs in progress: who runs it, on which repository entry, which function
LoopRunning == {<<0, s>> : s \in loopSync}
ConnRunning == UNION {{<<c, s>> : s \in conns[c].sync} : c \in 1..MaxConns}
Running == LoopRunning \cup ConnRunning

\* ---- git.rs: the repository a sync runs on, and what a run has done so far ----

SyncFns == {"check_and_commit", "initialize_repository"}
\* the repository as a sync finds it: has_changes is true (dirty), staging leaves
\* something to commit (stageable), a remote "origin" is configured (remote), the local
\* tip differs from its upstream or has none (ahead)
WorkTree ==
    [dirty : BOOLEAN, stageable : BOOLEAN, remote : BOOLEAN, ahead : BOOLEAN,
     identity : BOOLEAN]
\* no sync engine run is followed
NoSync ==
    [fn |-> "", at |-> "idle",
     tree |-> [dirty |-> FALSE, stageable |-> FALSE, remote |-> FALSE, ahead |-> FALSE,
               identity |-> FALSE],
     committed |-> FALSE, created |-> FALSE, rebase |-> FALSE, ran |-> <<>>,
     push |-> "", pull |-> "", abort |-> "", result |-> ""]
\* spawn_blocking has started the closure: nothing has run, no rebase is in progress
SyncStart(fn, tree) == [NoSync EXCEPT !.fn = fn, !.at = "open", !.tree = tree]

\* ---- config.rs: the configuration file ----

\* the file holds the serialization of a configuration
FileOf(cfg) == [kind |-> "config", value |-> Some(cfg)]
\* the file holds whatever its writers, who are not followed, have left
UnknownFile == [kind |-> "unknown", value |-> None]
\* Config::save has opened the file with truncation and not yet written cfg: it is empty
TruncatedFor(cfg) == [kind |-> "truncated", value |-> Some(cfg)]

default_check_interval == 300
\* what toml::from_str makes of an empty file: every field has a serde default
DefaultConfig ==
    [daemon |-> [check_interval_seconds |-> default_check_interval, enable_tray |-> TRUE],
     repositories |-> <<>>]

\* no call of format_commit_message is followed
NoMessage == [template |-> <<>>, now |-> 0, out |-> None]

\* ---- initial state: main before the startup reconciliation ----
MainInit(configs, weight) ==
    /\ config \in configs
    /\ suspended = FALSE
    /\ tray_handle = None
    /\ interval = [period |-> 0, pending |-> 0, immediate |-> FALSE]
    /\ pc = "init"
    /\ idx = 1
    /\ loopSync = None
    /\ any_errors = FALSE
    /\ new_config = None
    /\ initLog = <<>>
    /\ signals = {}
    /\ reload_rx = 0
    /\ tray_action_rx = <<>>
    /\ conns = [c \in 1..MaxConns |-> NoConn]
    /\ handled = ""
    /\ resumed = FALSE
    /\ tickCredit = 0
    /\ cycleLog = <<>>
    /\ erred = FALSE
    /\ budget = weight
    /\ runtime = "running"
    /\ config_file = FileOf(config)

\* a socket file may be left over from a run that did not shut down cleanly
InitWith(configs, weight) ==
    /\ MainInit(configs, weight)
    /\ socket_file \in {"none", "file"}
    /\ git = NoSync
    /\ commit_message = NoMessage

\* any configuration file
Init == InitWith(Config, MaxInputs)

\* the configuration of the scenario: /r1 enabled, /r2 disabled, tray enabled
ScenarioConfig ==
    [daemon |-> [check_interval_seconds |-> 1, enable_tray |-> TRUE],
     repositories |-> <<[path |-> 1, auto_commit |-> TRUE], [path |-> 2, auto_commit |-> FALSE]>>]
InitScenario == InitWith({ScenarioConfig}, MaxInputs + 1)

\* ---- main: startup reconciliation and setup ----

\* main: `for repo in &config.repositories`, up to the await of initialize_repository
StartupInit ==
    /\ pc = "init" /\ loopSync = None
    /\ LET j == NextEligible(config.repositories, idx) IN
       IF j <= Len(config.repositories)
       THEN /\ loopSync' = Some([repo |-> config.repositories[j], fn |-> "initialize_repository"])
            /\ idx' = j
            /\ initLog' = Append(initLog, config.repositories[j].path)
            /\ pc' = pc
       ELSE /\ pc' = "setup"
            /\ idx' = 1
            /\ UNCHANGED <<loopSync, initLog>>
    /\ UNCHANGED <<config, suspended, tray_handle, interval, any_errors, new_config, conns>>
    /\ UNCHANGED envVars /\ UNCHANGED histVars
    /\ UNCHANGED extVars

\* an initialize_repository whose Err main returns with `?`
initialize_repository_fatal ==
    /\ pc \in {"init", "reload"} /\ loopSync # None
    /\ \E o \in Outcomes :
        /\ loopSync' = None
        /\ idx' = idx + 1
        /\ pc' = IF o = "error" THEN "fatal" ELSE pc
    /\ UNCHANGED <<config, suspended, tray_handle, interval, any_errors, new_config,
                   initLog, conns>>
    /\ UNCHANGED envVars /\ UNCHANGED histVars
    /\ UNCHANGED extVars

\* the awaited initialize_repository returns, Ok or Err: both are only logged
initialize_repository_done ==
    /\ pc \in {"init", "reload"} /\ loopSync # None
    /\ \E o \in Outcomes :
        /\ loopSync' = None
        /\ idx' = idx + 1
    /\ UNCHANGED <<config, suspended, tray_handle, interval, pc, any_errors, new_config,
                   initLog, conns>>
    /\ UNCHANGED envVars /\ UNCHANGED histVars
    /\ UNCHANGED extVars

\* tokio::time::interval(period): panics on a zero period, and the first tick
\* of a new Interval completes immediately
tokio_interval(period) == [period |-> period, pending |-> 1, immediate |-> TRUE]

\* a create_listener that binds without looking for a stale file: bind fails with
\* EADDRINUSE on an existing path
create_listener_no_remove(file, removed, bindable) ==
    IF file # "none" THEN [ok |-> FALSE, file |-> file]
    ELSE [ok |-> bindable, file |-> IF bindable THEN "file" ELSE "none"]
\* socket::create_listener: remove_file of an existing file (Err is returned), then
\* create_dir_all and UnixListener::bind (bindable: both succeed); bind creates the file
create_listener(file, removed, bindable) ==
    IF file # "none" /\ ~removed THEN [ok |-> FALSE, file |-> "stuck"]
    ELSE [ok |-> bindable, file |-> IF bindable THEN "file" ELSE "none"]

\* main after the reconciliation (watcher, socket, tray, signals) and the head of
\* run_daemon (the Interval and its first tick)
Setup ==
    /\ pc = "setup"
    /\ \E removed \in BOOLEAN, bindable \in BOOLEAN, spawned \in BOOLEAN :
        LET listener == create_listener(socket_file, removed, bindable) IN
        /\ socket_file' = listener.file
        /\ IF ~listener.ok
           THEN /\ pc' = "fatal"
                /\ UNCHANGED <<tray_handle, interval>>
           ELSE /\ tray_handle' = IF config.daemon.enable_tray /\ spawned
                                  THEN Some(NewTray(Len(config.repositories))) ELSE None
                /\ IF config.daemon.check_interval_seconds = 0
                   THEN pc' = "fatal" /\ interval' = interval
                   ELSE /\ pc' = "select"
                        /\ interval' = [tokio_interval(config.daemon.check_interval_seconds)
                                           EXCEPT !.pending = 0, !.immediate = FALSE]
    /\ UNCHANGED <<config, suspended, idx, loopSync, any_errors, new_config, initLog, conns,
                   runtime, git, config_file, commit_message>>
    /\ UNCHANGED envVars /\ UNCHANGED histVars

\* ---- the environment ----

\* a period of the Interval elapses (missed ticks accumulate: MissedTickBehavior::Burst)
TimerFire ==
    /\ InLoop /\ budget >= 1
    /\ budget' = budget - 1
    /\ interval' = [interval EXCEPT !.pending = @ + 1]
    /\ tickCredit' = IF resumed THEN tickCredit + 1 ELSE tickCredit
    /\ UNCHANGED <<config, suspended, tray_handle, conns, signals, reload_rx, tray_action_rx,
                   handled, resumed, cycleLog, erred>>
    /\ UNCHANGED loopVars
    /\ UNCHANGED extVars

\* somebody writes the configuration file, and the watcher callback gets the modify
\* event: what the file holds from then on is whatever a later read finds
FileModified ==
    /\ InLoop /\ budget >= ReloadCost /\ reload_rx < ChannelCapacity
    /\ budget' = budget - ReloadCost
    /\ reload_rx' = reload_rx + 1
    /\ UNCHANGED <<config, suspended, tray_handle, interval, conns, signals, tray_action_rx>>
    /\ UNCHANGED loopVars /\ UNCHANGED histVars
    /\ config_file' = UnknownFile
    /\ UNCHANGED <<socket_file, runtime, git, commit_message>>

\* a menu item of the running tray sends its action
TrayClick ==
    /\ InLoop /\ budget >= 1 /\ Len(tray_action_rx) < ChannelCapacity
    /\ tray_handle # None
    /\ \E a \in TrayActions : tray_action_rx' = Append(tray_action_rx, a)
    /\ budget' = budget - 1
    /\ UNCHANGED <<config, suspended, tray_handle, interval, conns, signals, reload_rx>>
    /\ UNCHANGED loopVars /\ UNCHANGED histVars
    /\ UNCHANGED extVars

SignalDelivered ==
    /\ InLoop /\ budget >= 1
    /\ \E s \in Signals \ signals : signals' = signals \cup {s}
    /\ budget' = budget - 1
    /\ UNCHANGED <<config, suspended, tray_handle, interval, conns, reload_rx, tray_action_rx>>
    /\ UNCHANGED loopVars /\ UNCHANGED histVars
    /\ UNCHANGED extVars

\* a client connects and sends its request line
Connect ==
    /\ InLoop /\ budget >= 1
    /\ budget' = budget - 1
    /\ \E c \in 1..MaxConns, l \in Lines :
        /\ conns[c].st = "none"
        /\ \A d \in 1..(c - 1) : conns[d].st # "none"
        /\ conns' = [conns EXCEPT ![c] = [NoConn EXCEPT !.st = "pending", !.line = l]]
    /\ UNCHANGED <<config, suspended, tray_handle, interval, signals, reload_rx,
                   tray_action_rx>>
    /\ UNCHANGED loopVars /\ UNCHANGED histVars
    /\ UNCHANGED extVars

\* ---- run_daemon: the biased select ----

\* a select without `biased;`: tokio polls the branches from a random start, so a
\* ready branch does not keep the ones after it from being taken
unbiased(ready) == FALSE
\* `biased;`: a branch is taken only if no branch before it is ready
biased(ready) == ready

SignalReady == signals # {}
AcceptReady == \E c \in 1..MaxConns : conns[c].st = "pending"
\* a tick branch that carried an `if !suspended` precondition
TickReadyUnlessSuspended == interval.pending > 0 /\ ~suspended
\* `_ = interval.tick() =>`: the branch has no precondition
TickReady == interval.pending > 0
\* a reload branch that carried an `if !suspended` precondition
ReloadReadyUnlessSuspended == reload_rx > 0 /\ ~suspended
\* `Some(_) = reload_rx.recv() =>`: the branch has no precondition
ReloadReady == reload_rx > 0
TrayReady == tray_action_rx # <<>>

\* `_ = sigterm.recv() => break`, `_ = sigint.recv() => break`
HandleSignal ==
    /\ pc = "select" /\ SignalReady
    /\ LET s == IF "SIGTERM" \in signals THEN "SIGTERM" ELSE "SIGINT" IN
        /\ signals' = signals \ {s}
        /\ handled' = s
    /\ pc' = "done"
    /\ UNCHANGED <<config, suspended, tray_handle, interval, idx, loopSync, any_errors,
                   new_config, initLog, reload_rx, tray_action_rx, conns, resumed, tickCredit,
                   cycleLog, erred, budget>>
    /\ UNCHANGED extVars

\* `Ok((stream, _addr)) = socket_listener.accept() => tokio::spawn(handle_connection(..))`
Accept ==
    /\ pc = "select" /\ ~biased(SignalReady) /\ AcceptReady
    /\ LET c == CHOOSE d \in 1..MaxConns :
                    /\ conns[d].st = "pending"
                    /\ \A e \in 1..(d - 1) : conns[e].st # "pending" IN
        conns' = [conns EXCEPT ![c].st = "spawned"]
    /\ handled' = "accept"
    /\ UNCHANGED <<config, suspended, tray_handle, interval, resumed, tickCredit, cycleLog, erred>>
    /\ UNCHANGED loopVars /\ UNCHANGED envVars
    /\ UNCHANGED extVars

\* the head of a sync cycle: the Syncing status, the read guard `cfg`, any_errors
CycleBegin ==
    /\ tray_handle' = set_status(tray_handle, "Syncing")
    /\ pc' = "cycle"
    /\ idx' = 1
    /\ any_errors' = FALSE
    /\ cycleLog' = <<>>
    /\ erred' = FALSE

\* `if suspended.load(Relaxed) { continue; }` of the timer branch
TickNeverSkipped == FALSE
TickSkipped == suspended

\* `_ = interval.tick() =>`
IntervalTick ==
    /\ pc = "select" /\ ~biased(SignalReady) /\ ~biased(AcceptReady) /\ TickReady
    /\ interval' = [interval EXCEPT !.pending = @ - 1, !.immediate = FALSE]
    /\ handled' = "tick"
    /\ IF TickSkipped
       THEN UNCHANGED <<tray_handle, pc, idx, any_errors, tickCredit, cycleLog, erred>>
       ELSE /\ CycleBegin
            /\ tickCredit' = IF resumed THEN tickCredit - 1 ELSE tickCredit
    /\ UNCHANGED <<config, suspended, loopSync, new_config, initLog, conns, resumed>>
    /\ UNCHANGED envVars
    /\ UNCHANGED extVars

\* a cycle that spawns the sync of a repository and goes back to the select without
\* awaiting it
CycleStep_spawns ==
    /\ pc = "cycle" /\ loopSync = None
    /\ LET j == NextEligible(config.repositories, idx) IN
       IF j <= Len(config.repositories)
       THEN /\ loopSync' = Some([repo |-> config.repositories[j], fn |-> "check_and_commit"])
            /\ idx' = j
            /\ cycleLog' = Append(cycleLog, config.repositories[j].path)
            /\ pc' = "select"
            /\ UNCHANGED tray_handle
       ELSE /\ tray_handle' = IF any_errors THEN increment_errors(tray_handle)
                              ELSE set_last_sync(tray_handle)
            /\ pc' = "select"
            /\ cycleLog' = <<>>
            /\ UNCHANGED <<idx, loopSync>>
    /\ UNCHANGED <<config, suspended, interval, any_errors, new_config, initLog, conns>>
    /\ UNCHANGED <<handled, resumed, tickCredit, erred>>
    /\ UNCHANGED envVars
    /\ UNCHANGED extVars
\* `for repo in &cfg.repositories` of a cycle, up to the await of check_and_commit,
\* and the tray update after the loop
CycleStep ==
    /\ pc = "cycle" /\ loopSync = None
    /\ LET j == NextEligible(config.repositories, idx) IN
       IF j <= Len(config.repositories)
       THEN /\ loopSync' = Some([repo |-> config.repositories[j], fn |-> "check_and_commit"])
            /\ idx' = j
            /\ cycleLog' = Append(cycleLog, config.repositories[j].path)
            /\ UNCHANGED <<pc, tray_handle>>
       ELSE /\ tray_handle' = IF any_errors THEN increment_errors(tray_handle)
                              ELSE set_last_sync(tray_handle)
            /\ pc' = "select"
            /\ cycleLog' = <<>>
            /\ UNCHANGED <<idx, loopSync>>
    /\ UNCHANGED <<config, suspended, interval, any_errors, new_config, initLog, conns>>
    /\ UNCHANGED <<handled, resumed, tickCredit, erred>>
    /\ UNCHANGED envVars
    /\ UNCHANGED extVars

\* a cycle that propagates the error of a repository with `?` and so leaves the loop
check_and_commit_aborts ==
    /\ pc = "cycle" /\ loopSync # None
    /\ \E o \in Outcomes :
        /\ any_errors' = (any_errors \/ o = "error")
        /\ erred' = (erred \/ o = "error")
        /\ idx' = IF o = "error" THEN Len(config.repositories) + 1 ELSE idx + 1
    /\ loopSync' = None
    /\ UNCHANGED <<config, suspended, tray_handle, interval, pc, new_config, initLog, conns>>
    /\ UNCHANGED envVars /\ UNCHANGED <<handled, resumed, tickCredit, cycleLog>>
    /\ UNCHANGED extVars

\* a cycle whose any_errors is the result of the repository it synced last
check_and_commit_last_result ==
    /\ pc = "cycle" /\ loopSync # None
    /\ \E o \in Outcomes :
        /\ any_errors' = (o = "error")
        /\ erred' = (erred \/ o = "error")
    /\ loopSync' = None
    /\ idx' = idx + 1
    /\ UNCHANGED <<config, suspended, tray_handle, interval, pc, new_config, initLog, conns>>
    /\ UNCHANGED envVars /\ UNCHANGED <<handled, resumed, tickCredit, cycleLog>>
    /\ UNCHANGED extVars
\* the awaited check_and_commit of a cycle returns: `Err(e) => { any_errors = true; }`
check_and_commit_done ==
    /\ pc = "cycle" /\ loopSync # None
    /\ \E o \in Outcomes :
        /\ any_errors' = (any_errors \/ o = "error")
        /\ erred' = (erred \/ o = "error")
    /\ loopSync' = None
    /\ idx' = idx + 1
    /\ UNCHANGED <<config, suspended, tray_handle, interval, pc, new_config, initLog, conns>>
    /\ UNCHANGED envVars /\ UNCHANGED <<handled, resumed, tickCredit, cycleLog>>
    /\ UNCHANGED extVars

\* Config::load: Err (unreadable or unparsable file), or Ok of what the file holds; an
\* empty file parses, to the defaults
ConfigLoad ==
    CASE config_file.kind = "config" -> {config_file.value}
      [] config_file.kind = "truncated" -> {Some(DefaultConfig)}
      [] config_file.kind = "unknown" -> {None} \cup {Some(c) : c \in Config}

\* `Err(e) => { error!(..); warn!("Keeping previous configuration"); }`
ReloadErrClears ==
    /\ config' = [config EXCEPT !.repositories = <<>>]
    /\ UNCHANGED <<tray_handle, interval, pc, idx, new_config, initLog>>
ReloadErr == UNCHANGED <<config, tray_handle, interval, pc, idx, new_config, initLog>>

\* `Some(_) = reload_rx.recv() =>` with Config::load
Reload ==
    /\ pc = "select" /\ ~biased(SignalReady) /\ ~biased(AcceptReady) /\ ~biased(TickReady)
    /\ ReloadReady
    /\ reload_rx' = reload_rx - 1
    /\ \E loaded \in ConfigLoad :
        IF loaded = None
        THEN /\ handled' = "reload_err"
             /\ ReloadErr
        ELSE /\ handled' = "reload"
             /\ new_config' = loaded
             /\ pc' = "reload"
             /\ idx' = 1
             /\ initLog' = <<>>
             /\ UNCHANGED <<config, tray_handle, interval>>
    /\ UNCHANGED <<suspended, loopSync, any_errors, conns, signals, tray_action_rx, budget,
                   resumed, tickCredit, cycleLog, erred>>
    /\ UNCHANGED extVars

\* `for repo in &new_repos`, up to the await of initialize_repository
ReloadInit ==
    /\ pc = "reload" /\ loopSync = None
    /\ LET new_repos == NewRepos(config, The(new_config))
           j == NextEligible(new_repos, idx) IN
       IF j <= Len(new_repos)
       THEN /\ loopSync' = Some([repo |-> new_repos[j], fn |-> "initialize_repository"])
            /\ idx' = j
            /\ initLog' = Append(initLog, new_repos[j].path)
            /\ pc' = pc
       ELSE /\ pc' = "write"
            /\ UNCHANGED <<idx, loopSync, initLog>>
    /\ UNCHANGED <<config, suspended, tray_handle, interval, any_errors, new_config, conns>>
    /\ UNCHANGED envVars /\ UNCHANGED histVars
    /\ UNCHANGED extVars

\* a trigger command that clones the configuration and holds no guard while it syncs
NoReaders == {}
\* a reload that still holds its `old_config` read guard when it asks for the write
\* guard (0 stands for the loop)
ReadersAndLoop ==
    {c \in 1..MaxConns : conns[c].st = "trigger"} \cup (IF pc = "write" THEN {0} ELSE {})
\* the tasks that hold a read guard of config while the loop asks for the write guard:
\* the connection tasks inside handle_trigger_command; the loop has dropped its own
Readers == {c \in 1..MaxConns : conns[c].st = "trigger"}
\* the loop is queued for the write guard (tokio's RwLock is fair: later readers wait)
WriterQueued == pc = "write" /\ Readers # {}

\* `*config.write().await = new_config` and the rest of the reload branch
ReloadWrite ==
    /\ pc = "write" /\ Readers = {}
    /\ LET old_interval == config.daemon.check_interval_seconds
           old_enable_tray == config.daemon.enable_tray
           new_interval == The(new_config).daemon.check_interval_seconds
           new_enable_tray == The(new_config).daemon.enable_tray
           new_repo_count == Len(The(new_config).repositories)
           counted == set_repo_count(tray_handle, new_repo_count) IN
        /\ config' = The(new_config)
        /\ IF old_interval # new_interval /\ new_interval = 0
           THEN /\ pc' = "panic"
                /\ tray_handle' = counted
                /\ UNCHANGED <<interval, tickCredit>>
           ELSE /\ pc' = "select"
                /\ IF old_interval # new_interval
                   THEN /\ interval' = tokio_interval(new_interval)
                        /\ tickCredit' = IF resumed THEN tickCredit + 1 ELSE tickCredit
                   ELSE UNCHANGED <<interval, tickCredit>>
                /\ IF old_enable_tray = new_enable_tray
                   THEN tray_handle' = counted
                   ELSE IF new_enable_tray
                   THEN \E spawned \in BOOLEAN :
                            tray_handle' = IF spawned THEN Some(NewTray(new_repo_count)) ELSE counted
                   ELSE tray_handle' = None
    /\ new_config' = None
    /\ initLog' = <<>>
    /\ UNCHANGED <<suspended, idx, loopSync, any_errors, conns, handled, resumed, cycleLog, erred>>
    /\ UNCHANGED envVars
    /\ UNCHANGED extVars

\* `if suspended.load(Relaxed) { info!("Manual sync skipped .."); continue; }`
TriggerNeverSkipped == FALSE
TriggerSkipped == suspended

\* a Quit branch that only logs
AfterQuitContinue == "select"
\* `tray::TrayAction::Quit => { info!(..); break; }`, then `Ok(())`
AfterQuit == "done"

\* a ToggleSuspend that only ever suspends
new_state_suspend(was) == TRUE
\* `let new_state = !suspended.load(..)`
new_state(was) == ~was

\* `Some(action) = tray_action_rx.recv() =>`
TrayAction ==
    /\ pc = "select" /\ ~biased(SignalReady) /\ ~biased(AcceptReady) /\ ~biased(TickReady)
    /\ ~biased(ReloadReady) /\ TrayReady
    /\ LET action == Head(tray_action_rx) IN
        /\ tray_action_rx' = Tail(tray_action_rx)
        /\ handled' = action
        /\ CASE action = "TriggerSync" ->
                    /\ IF TriggerSkipped
                       THEN UNCHANGED <<tray_handle, pc, idx, any_errors, cycleLog, erred>>
                       ELSE CycleBegin
                    /\ UNCHANGED <<suspended, resumed, tickCredit>>
             [] action = "ToggleSuspend" ->
                    /\ suspended' = new_state(suspended)
                    /\ resumed' = (resumed \/ suspended)
                    /\ tickCredit' = IF suspended THEN 0 ELSE tickCredit
                    /\ UNCHANGED <<tray_handle, pc, idx, any_errors, cycleLog, erred>>
             [] action = "Quit" ->
                    /\ pc' = AfterQuit
                    /\ UNCHANGED <<tray_handle, idx, any_errors, suspended, resumed, tickCredit,
                                   cycleLog, erred>>
    /\ UNCHANGED <<config, interval, loopSync, new_config, initLog, conns, signals, reload_rx,
                   budget>>
    /\ UNCHANGED extVars

\* ---- socket.rs: one task per accepted connection ----

\* a count of the enabled repositories only
enabled_count(cfg) == Len(SelectSeq(cfg.repositories, LAMBDA r : r.auto_commit))
\* `repositories_count: cfg.repositories.len()`
repositories_count(cfg) == Len(cfg.repositories)

\* Response::ok / Response::ok_with_data
ResponseOk(data) == [status |-> "ok", data |-> data]

\* a count of every entry of a details list
CountDetails(details) == Len(details)
\* number of entries of a details list that report a commit
RECURSIVE CountCommitted(_)
CountCommitted(details) ==
    IF details = <<>> THEN 0
    ELSE (IF Head(details).committed THEN 1 ELSE 0) + CountCommitted(Tail(details))

\* handle_connection_impl: read_line and Command::from_json
HandlerRead ==
    \E c \in 1..MaxConns :
        /\ conns[c].st = "spawned"
        /\ conns' = [conns EXCEPT ![c] =
                        IF conns[c].line = "" THEN Closed
                        ELSE IF conns[c].line \in Commands
                        THEN [@ EXCEPT !.st = "exec"]
                        ELSE Failed]
        /\ UNCHANGED <<config, suspended, tray_handle, interval>>
        /\ UNCHANGED loopVars /\ UNCHANGED envVars /\ UNCHANGED histVars
    /\ UNCHANGED extVars

\* handle_connection_impl: `match command`, up to the first await inside the command
HandlerExec ==
    \E c \in 1..MaxConns :
        /\ conns[c].st = "exec"
        /\ CASE conns[c].line = "ping" ->
                    conns' = [conns EXCEPT ![c].st = "respond", ![c].resp = ResponseOk([type |-> "none"])]
             [] conns[c].line = "status" ->
                    /\ ~WriterQueued
                    /\ conns' = [conns EXCEPT ![c].st = "respond", ![c].resp = ResponseOk(
                            [type |-> "status",
                             check_interval_seconds |-> config.daemon.check_interval_seconds,
                             repositories_count |-> repositories_count(config)])]
             [] conns[c].line = "trigger" ->
                    /\ ~WriterQueued
                    /\ conns' = [conns EXCEPT ![c].st = "trigger", ![c].idx = 1,
                                             ![c].susp = suspended]
        /\ UNCHANGED <<config, suspended, tray_handle, interval>>
        /\ UNCHANGED loopVars /\ UNCHANGED envVars /\ UNCHANGED histVars
    /\ UNCHANGED extVars

\* handle_trigger_command: `for repo in &cfg.repositories`, up to the await of
\* check_and_commit, and the response after the loop
TriggerStep ==
    \E c \in 1..MaxConns :
        /\ conns[c].st = "trigger" /\ conns[c].sync = None
        /\ LET j == NextEligible(config.repositories, conns[c].idx) IN
           IF j <= Len(config.repositories)
           THEN conns' = [conns EXCEPT
                    ![c].sync = Some([repo |-> config.repositories[j], fn |-> "check_and_commit"]),
                    ![c].idx = j]
           ELSE conns' = [conns EXCEPT ![c].st = "respond", ![c].resp = ResponseOk(
                    [type |-> "trigger",
                     repos_checked |-> Len(conns[c].details),
                     repos_committed |-> CountCommitted(conns[c].details),
                     details |-> conns[c].details])]
        /\ UNCHANGED <<config, suspended, tray_handle, interval>>
        /\ UNCHANGED loopVars /\ UNCHANGED envVars /\ UNCHANGED histVars
    /\ UNCHANGED extVars

\* handle_trigger_command: the awaited check_and_commit returns; the closure of a task
\* that was dropped meanwhile returns to nobody
TriggerSyncDone ==
    \E c \in 1..MaxConns :
        /\ conns[c].sync # None
        /\ \E o \in Outcomes :
            conns' = [conns EXCEPT ![c] =
                IF @.st = "dropped" THEN [@ EXCEPT !.sync = None]
                ELSE [@ EXCEPT
                        !.details = Append(@, [path |-> The(conns[c].sync).repo.path,
                                               committed |-> (o = "committed"),
                                               error |-> (o = "error")]),
                        !.sync = None,
                        !.idx = @ + 1]]
        /\ UNCHANGED <<config, suspended, tray_handle, interval>>
        /\ UNCHANGED loopVars /\ UNCHANGED envVars /\ UNCHANGED histVars
    /\ UNCHANGED extVars

\* a handler that goes back to read_line after it has written the response
HandlerRespondKeepsOpen ==
    \E c \in 1..MaxConns :
        /\ conns[c].st = "respond"
        /\ conns' = [conns EXCEPT ![c] = [NoConn EXCEPT !.st = "spawned", !.line = conns[c].line]]
        /\ UNCHANGED <<config, suspended, tray_handle, interval>>
        /\ UNCHANGED loopVars /\ UNCHANGED envVars /\ UNCHANGED histVars
    /\ UNCHANGED extVars

\* handle_connection_impl: write_all, flush, and the stream is dropped (the peer reads on)
HandlerRespond ==
    \E c \in 1..MaxConns :
        /\ conns[c].st = "respond"
        /\ conns' = [conns EXCEPT ![c] = Closed]
        /\ UNCHANGED <<config, suspended, tray_handle, interval>>
        /\ UNCHANGED loopVars /\ UNCHANGED envVars /\ UNCHANGED histVars
    /\ UNCHANGED extVars

\* ---- main after run_daemon has returned ----

\* a shutdown that leaves the socket file where it is
cleanup_socket_skipped(file, removed) == file
\* socket::cleanup_socket: remove_file of an existing file, its Err is only logged
cleanup_socket(file, removed) ==
    IF file = "none" \/ removed THEN "none" ELSE "stuck"

\* a runtime whose shutdown also ends the blocking closures that have started
runtime_drop_cancels(conn) ==
    IF conn.st \in {"spawned", "exec", "trigger", "respond"}
    THEN [NoConn EXCEPT !.st = "dropped"] ELSE conn
\* #[tokio::main]: when main returns the runtime is dropped; a spawned task is dropped at
\* the await it is parked at, and the drop waits for every spawn_blocking closure that
\* has started
runtime_drop(conn) ==
    IF conn.st \in {"spawned", "exec", "trigger", "respond"}
    THEN [NoConn EXCEPT !.st = "dropped", !.sync = conn.sync] ELSE conn

\* main: drop(watcher), socket::cleanup_socket(), Ok(()) and the runtime's drop
MainReturn ==
    /\ pc = "done" /\ runtime = "running"
    /\ \E removed \in BOOLEAN : socket_file' = cleanup_socket(socket_file, removed)
    /\ runtime' = "shutdown"
    /\ conns' = [c \in 1..MaxConns |-> runtime_drop(conns[c])]
    /\ UNCHANGED <<config, suspended, tray_handle, interval, git, config_file,
                   commit_message>>
    /\ UNCHANGED loopVars /\ UNCHANGED envVars /\ UNCHANGED histVars

Next ==
    \/ StartupInit
    \/ initialize_repository_done
    \/ Setup
    \/ TimerFire
    \/ FileModified
    \/ TrayClick
    \/ SignalDelivered
    \/ Connect
    \/ HandleSignal
    \/ Accept
    \/ IntervalTick
    \/ CycleStep
    \/ check_and_commit_done
    \/ Reload
    \/ ReloadInit
    \/ ReloadWrite
    \/ TrayAction
    \/ HandlerRead
    \/ HandlerExec
    \/ TriggerStep
    \/ TriggerSyncDone
    \/ HandlerRespond
    \/ MainReturn
Spec == Init /\ [][Next]_vars
SpecScenario == InitScenario /\ [][Next]_vars

\* ---- git.rs: the sync engine, one step per function it calls ----

daemonVars == <<config, suspended, tray_handle, interval, pc, idx, loopSync, any_errors,
                new_config, initLog, signals, reload_rx, tray_action_rx, conns, handled,
                resumed, tickCredit, cycleLog, erred, budget, socket_file, runtime, config_file,
                commit_message>>

\* the function has been called
called(g, f) == [g EXCEPT !.ran = Append(@, f)]
\* `?` on an Err, or the final Ok(committed) / Ok(())
returns(g, r) == [g EXCEPT !.at = "returned", !.result = r]

\* `let repo = open_repository(&repo_config.path)?;`
open_repository ==
    /\ git.at = "open"
    /\ \E ok \in BOOLEAN :
        git' = IF ok THEN [called(git, "open") EXCEPT !.at = "has_changes"]
               ELSE returns(called(git, "open"), "Err")
    /\ UNCHANGED daemonVars

\* `has_changes(&repo)?` and the `if` on it
has_changes ==
    /\ git.at = "has_changes"
    /\ \E ok \in BOOLEAN :
        git' = IF ~ok THEN returns(called(git, "has_changes"), "Err")
               ELSE [called(git, "has_changes") EXCEPT
                        !.at = IF git.tree.dirty THEN "stage" ELSE "pull"]
    /\ UNCHANGED daemonVars

\* `stage_all_changes(&repo)?;`
stage_all_changes ==
    /\ git.at = "stage"
    /\ \E ok \in BOOLEAN :
        git' = IF ok THEN [called(git, "stage") EXCEPT !.at = "has_staged"]
               ELSE returns(called(git, "stage"), "Err")
    /\ UNCHANGED daemonVars

\* `if has_staged_changes(&repo)? {`
has_staged_changes ==
    /\ git.at = "has_staged"
    /\ \E ok \in BOOLEAN :
        git' = IF ~ok THEN returns(called(git, "has_staged"), "Err")
               ELSE [called(git, "has_staged") EXCEPT
                        !.at = IF git.tree.stageable THEN "commit" ELSE "pull"]
    /\ UNCHANGED daemonVars

\* get_signature: Err when user.name or user.email is not set; with both set it can
\* still fail on the repository config or on Signature::now
get_signature(g) == IF g.tree.identity THEN BOOLEAN ELSE {FALSE}

\* a create_commit that commits with whatever signature it is given
create_commit_unsigned ==
    /\ git.at = "commit"
    /\ \E ok \in BOOLEAN :
        git' = IF ~ok THEN returns(called(git, "commit"), "Err")
               ELSE [called(git, "commit") EXCEPT
                        !.at = "push", !.created = TRUE,
                        !.committed = (git.fn = "check_and_commit")]
    /\ UNCHANGED daemonVars
\* `create_commit(&repo, &commit_message)?;`: `get_signature(repo)?` comes before
\* anything is written, then the tree and the commit are written, which can fail;
\* and `committed = true;` of check_and_commit_sync
create_commit ==
    /\ git.at = "commit"
    /\ \E signed \in get_signature(git), ok \in BOOLEAN :
        git' = IF ~(signed /\ ok) THEN returns(called(git, "commit"), "Err")
               ELSE [called(git, "commit") EXCEPT
                        !.at = "push", !.created = TRUE,
                        !.committed = (git.fn = "check_and_commit")]
    /\ UNCHANGED daemonVars

\* push_changes on this repository: find_remote fails, or finds no origin; nothing is
\* unpushed; `git push` cannot be executed, exits with success, or does not
push_outcomes(g) ==
    {"remote_err"} \cup
        (IF ~g.tree.remote THEN {"no_remote"}
         ELSE IF ~(g.tree.ahead \/ g.created) THEN {"up_to_date"}
         ELSE {"spawn_err", "pushed", "rejected"})
\* the Result of push_changes: Ok(true), Ok(false) or Err
push_result(o) == IF o \in {"remote_err", "spawn_err"} THEN "Err" ELSE "Ok"

\* `push_changes(&repo, &repo_config.path)?;`
push_changes ==
    /\ git.at = "push"
    /\ \E o \in push_outcomes(git) :
        LET g == [called(git, "push") EXCEPT !.push = o] IN
        git' = IF push_result(o) = "Err" THEN returns(g, "Err") ELSE [g EXCEPT !.at = "pull"]
    /\ UNCHANGED daemonVars

\* pull_rebase on this repository: find_remote fails, or finds no origin; `git pull
\* --rebase` cannot be executed; it exits with success and the repository is re-opened
\* or not; it exits with a failure, the rebase stopped half way (conflict) or not begun
pull_outcomes(g) ==
    {"remote_err"} \cup
        (IF ~g.tree.remote THEN {"no_remote"}
         ELSE {"spawn_err", "pulled", "reopen_err", "conflict", "failed"})
\* the Result of pull_rebase where it does not depend on the abort
pull_result(o) == IF o \in {"remote_err", "spawn_err", "reopen_err"} THEN "Err" ELSE "Ok"

\* a pull_rebase that returns where the command has failed
AfterFailedPullReturn == "returned"
\* `} else {` of `if output.status.success()`: the abort is next
AfterFailedPull == "abort"

\* `pull_rebase(&repo, &repo_config.path)?;` up to the exit status of the command
pull_rebase ==
    /\ git.at = "pull"
    /\ \E o \in pull_outcomes(git) :
        LET g == [called(git, "pull") EXCEPT !.pull = o, !.rebase = (o = "conflict")] IN
        git' = IF o \in {"conflict", "failed"}
               THEN [g EXCEPT !.at = AfterFailedPull,
                              !.result = IF AfterFailedPull = "returned" THEN "Ok" ELSE @]
               ELSE returns(g, pull_result(o))
    /\ UNCHANGED daemonVars

\* `git rebase --abort`: cannot be executed, exits with success (only when a rebase is
\* in progress), or does not
abort_outcomes(g) == {"spawn_err", "nonzero"} \cup (IF g.rebase THEN {"ok"} ELSE {})
\* a pull_rebase that returns the failure of the abort
abort_propagated(o) == IF o = "ok" THEN "Ok" ELSE "Err"
\* `match abort_result {..}`: every arm only logs, then `Ok(false)`
abort_result(o) == "Ok"

\* pull_rebase: the abort after a failed command, and the return
rebase_abort ==
    /\ git.at = "abort"
    /\ \E o \in abort_outcomes(git) :
        git' = returns([called(git, "abort") EXCEPT
                            !.abort = o, !.rebase = IF o = "ok" THEN FALSE ELSE @],
                       abort_result(o))
    /\ UNCHANGED daemonVars

\* what the caller of check_and_commit makes of its Result<bool>
OutcomeOf(g) ==
    IF g.result = "Err" THEN "error" ELSE IF g.committed THEN "committed" ELSE "clean"
Returned == git.at = "returned"
Ran(f) == \E i \in 1..Len(git.ran) : git.ran[i] = f

\* one run of either function on any repository
InitSync ==
    /\ MainInit({ScenarioConfig}, 0)
    /\ socket_file = "none"
    /\ commit_message = NoMessage
    /\ git \in {SyncStart(f, t) : f \in SyncFns, t \in WorkTree}
NextSync ==
    \/ open_repository
    \/ has_changes
    \/ stage_all_changes
    \/ has_staged_changes
    \/ create_commit
    \/ push_changes
    \/ pull_rebase
    \/ rebase_abort
SpecSync == InitSync /\ [][NextSync]_vars

\* ---- git.rs: format_commit_message, on strings as sequences of characters ----

TokenTimestamp == <<"{", "t", "i", "m", "e", "s", "t", "a", "m", "p", "}">>
TokenDate == <<"{", "d", "a", "t", "e", "}">>
TokenTime == <<"{", "t", "i", "m", "e", "}">>

\* the pieces templates are put together from: the placeholders, near misses, halves
\* of a placeholder, braces, double braces, other text
Pieces ==
    {TokenTimestamp, TokenDate, TokenTime,
     <<"{", "d", "a", "t", "}">>,
     <<"{", "t", "i", "m", "e", "s", "t", "a", "m", "p", "s", "}">>,
     <<"{", "t", "i", "m", "e">>, <<"s", "t", "a", "m", "p", "}">>,
     <<"{", "{", "d", "a", "t", "e", "}", "}">>,
     <<"{">>, <<"}">>, <<"x">>}
RECURSIVE Concat(_)
Concat(ps) == IF ps = <<>> THEN <<>> ELSE Head(ps) \o Concat(Tail(ps))
Templates == UNION {{Concat(ps) : ps \in [1..n -> Pieces]} : n \in 0..MaxPieces}
Instants == 1..MaxInstants

\* DateTime::format: digits and separators that depend on the instant
strftime(now, fmt) ==
    LET d == <<"1", "2", "3", "4">>[now] IN
    CASE fmt = "%Y-%m-%d" -> <<d, "-", d>>
      [] fmt = "%H:%M:%S" -> <<d, ":", d>>
      [] fmt = "%Y-%m-%d %H:%M:%S" -> <<d, "-", d, " ", d, ":", d>>

\* str::replace: every non-overlapping match of from, leftmost first
RECURSIVE replace(_, _, _)
replace(str, from, to) ==
    IF Len(str) < Len(from) THEN str
    ELSE IF SubSeq(str, 1, Len(from)) = from
    THEN to \o replace(SubSeq(str, Len(from) + 1, Len(str)), from, to)
    ELSE <<Head(str)>> \o replace(Tail(str), from, to)

\* a format_commit_message that reads the clock again for each placeholder
format_commit_message_clock_per_token(template, now) ==
    LET later == (now % MaxInstants) + 1 IN
    replace(replace(replace(template,
        TokenTimestamp, strftime(now, "%Y-%m-%d %H:%M:%S")),
        TokenDate, strftime(later, "%Y-%m-%d")),
        TokenTime, strftime(later, "%H:%M:%S"))
\* format_commit_message: `let now = Local::now();` and the three chained replace
format_commit_message(template, now) ==
    replace(replace(replace(template,
        TokenTimestamp, strftime(now, "%Y-%m-%d %H:%M:%S")),
        TokenDate, strftime(now, "%Y-%m-%d")),
        TokenTime, strftime(now, "%H:%M:%S"))

\* check_and_commit_sync: `let commit_message = format_commit_message(..)`
FormatCall ==
    /\ commit_message.template # <<>> /\ commit_message.out = None
    /\ commit_message' = [commit_message EXCEPT
            !.out = Some(format_commit_message(commit_message.template, commit_message.now))]
    /\ UNCHANGED <<config, suspended, tray_handle, interval, conns, socket_file, runtime, git,
                   config_file>>
    /\ UNCHANGED loopVars /\ UNCHANGED envVars /\ UNCHANGED histVars

\* one call on any template at any instant
InitFormat ==
    /\ MainInit({ScenarioConfig}, 0)
    /\ socket_file = "none"
    /\ git = NoSync
    /\ commit_message \in [template : Templates \ {<<>>}, now : Instants, out : {None}]
NextFormat == FormatCall
SpecFormat == InitFormat /\ [][NextFormat]_vars

\* ---- what the loop does in a step, read off the queues ----

\* the loop takes a tick off the Interval
TickHandled == pc = "select" /\ interval'.pending < interval.pending
\* the loop takes a reload notification off reload_rx
ReloadHandled == pc = "select" /\ reload_rx' < reload_rx
\* the loop takes the next action off tray_action_rx
TrayHandled(action) ==
    /\ pc = "select" /\ tray_action_rx # <<>>
    /\ Head(tray_action_rx) = action
    /\ tray_action_rx' = Tail(tray_action_rx)
\* the loop takes a termination signal
SignalHandled == pc = "select" /\ signals' # signals /\ signals' \subseteq signals

Entries(cfg) == {cfg.repositories[i] : i \in 1..Len(cfg.repositories)}
PathsOf(repos) == [i \in 1..Len(repos) |-> repos[i].path]
IsPrefix(a, b) == Len(a) <= Len(b) /\ \A i \in 1..Len(a) : a[i] = b[i]

\* ---- C1 ----
\* C1: at most one sync (check_and_commit or initialize_repository) of a repository
\* path is in progress at any time.
C1_OneSyncPerPath ==
    \A a \in Running, b \in Running : a # b => a[2].repo.path # b[2].repo.path

\* ---- C2 ----
\* the configuration a sync was started from: the loaded one during the
\* initializations of a reload, the shared one otherwise
ConfigInUse(who) == IF who = 0 /\ pc = "reload" THEN The(new_config) ELSE config

\* C2: every repository handed to the sync engine, by whichever path, is an entry
\* of the configuration in use whose auto_commit is true.
C2_DisabledNeverSynced ==
    \A r \in Running : r[2].repo \in Entries(ConfigInUse(r[1])) /\ r[2].repo.auto_commit

\* a trigger command is syncing a repository that follows a disabled one
C2_Witness ==
    \E c \in 1..MaxConns :
        /\ conns[c].sync # None /\ conns[c].idx > 1
        /\ ~config.repositories[1].auto_commit

\* ---- C3 ----
\* C3: handling a reload whose load fails changes neither the shared configuration,
\* nor the Interval, nor the tray handle, and starts no initialization.
C3_FailedReloadKeepsAll ==
    [][(ReloadHandled /\ handled' = "reload_err") =>
            /\ config' = config
            /\ interval' = interval
            /\ tray_handle' = tray_handle
            /\ Running' = Running
            /\ pc' = "select"]_vars

C3_Witness ==
    /\ handled = "reload_err" /\ pc = "select"
    /\ config.repositories # <<>> /\ tray_handle # None

\* ---- C4 ----
\* the enabled repositories of new whose path does not occur in old
ExpectedInit(old, new) ==
    SelectSeq(new.repositories,
              LAMBDA n : n.auto_commit /\ n.path \notin {e.path : e \in Entries(old)})

\* C4: the repositories a successful reload initializes are, in order, exactly the
\* enabled entries of the new configuration whose path is not in the old one.
C4_InitializesExactlyNew ==
    /\ pc = "reload" => IsPrefix(initLog, PathsOf(ExpectedInit(config, The(new_config))))
    /\ pc = "write" => initLog = PathsOf(ExpectedInit(config, The(new_config)))

\* a new path is initialized by a reload that also re-enables a known path
C4_Witness ==
    /\ pc = "write" /\ initLog # <<>>
    /\ \E o \in Entries(config), n \in Entries(The(new_config)) :
            o.path = n.path /\ ~o.auto_commit /\ n.auto_commit

\* ---- C5 ----
\* C5: a tick or a tray TriggerSync handled while suspended starts no sync, leaves the
\* tray state as it is, and leaves the loop in its select.
C5_SuspendedEventIsNoOp ==
    [][(suspended /\ (TickHandled \/ TrayHandled("TriggerSync"))) =>
            /\ pc' = "select"
            /\ Running' = Running
            /\ tray_handle' = tray_handle
            /\ config' = config]_vars

C5_Witness ==
    /\ suspended /\ handled \in {"tick", "TriggerSync"}
    /\ pc = "select" /\ tray_handle # None

\* ---- C6 ----
\* C6: a trigger command taken up while suspended runs no repository sync, and the
\* response it writes has status ok.
C6_TriggerWhileSuspendedIsNoOp ==
    \A c \in 1..MaxConns :
        conns[c].susp =>
            /\ conns[c].sync = None
            /\ conns[c].st = "respond" => conns[c].resp.status = "ok"

\* ---- C7 ----
\* C7 as claimed: with a tick ready and a ToggleSuspend that turns suspension on
\* issued, handling that tick starts no cycle.
C7_PendingTickNotRun ==
    [][(~suspended /\ tray_action_rx = <<"ToggleSuspend">> /\ TickHandled) =>
            pc' = "select"]_vars

\* C7 as amended: a tick the loop handles after it has handled the ToggleSuspend that
\* turned suspension on starts no cycle; and the loop takes no tray action while a
\* tick is ready.
C7_TickAfterToggleNotRun ==
    [][/\ (handled = "ToggleSuspend" /\ suspended /\ TickHandled) =>
                (pc' = "select" /\ Running' = Running)
       /\ (pc = "select" /\ interval.pending > 0) =>
                ~\E a \in TrayActions : TrayHandled(a)]_vars

C7_Witness ==
    /\ suspended /\ ~resumed /\ handled = "tick"
    /\ pc = "select" /\ Running = {}

\* ---- C8 ----
\* C8: since the last resume, the automatic cycles run never outnumber the ticks
\* that fired.
C8_NoReplayAfterResume == resumed => tickCredit >= 0

C8_Witness ==
    /\ resumed /\ ~suspended /\ handled = "tick"
    /\ pc = "cycle" /\ tickCredit = 0

\* ---- C9 ----
\* nothing that precedes the reload branch in the select is ready
ReloadIsFirst ==
    /\ signals = {} /\ interval.pending = 0
    /\ \A c \in 1..MaxConns : conns[c].st # "pending"

C9_Enabled ==
    (suspended /\ pc = "select") =>
        /\ signals # {} => ENABLED HandleSignal
        /\ (reload_rx > 0 /\ ReloadIsFirst) => ENABLED Reload
        /\ (tray_action_rx # <<>> /\ reload_rx = 0 /\ ReloadIsFirst) => ENABLED TrayAction

C9_Effect ==
    suspended =>
        /\ (pc = "write" /\ pc' # "write") =>
                /\ config' = The(new_config)
                /\ initLog = PathsOf(ExpectedInit(config, The(new_config)))
                /\ LET old == config.daemon.check_interval_seconds
                       new == The(new_config).daemon.check_interval_seconds IN
                    /\ (old # new /\ new # 0) => interval' = tokio_interval(new)
                    /\ (old # new /\ new = 0) => pc' = "panic"
                    /\ old = new => interval' = interval
        /\ (SignalHandled \/ TrayHandled("Quit")) => pc' = "done"
        /\ \A c \in 1..MaxConns :
                (conns[c].st = "exec" /\ conns[c].line \in {"ping", "status"}
                    /\ conns'[c] # conns[c] /\ conns'[c].st # "dropped") =>
                        (conns'[c].st = "respond" /\ conns'[c].resp.status = "ok")

C10_LoopNeverCrashes == pc # "panic"

\* ---- C11 ----
\* the loop takes a pending connection off the listener
AcceptHandled ==
    pc = "select" /\ \E c \in 1..MaxConns : conns[c].st = "pending" /\ conns'[c].st = "spawned"
AnyTrayHandled == \E a \in TrayActions : TrayHandled(a)
NoConnPending == \A c \in 1..MaxConns : conns[c].st # "pending"
One(b) == IF b THEN 1 ELSE 0

\* C11: a step of the loop takes at most one event, and it takes an event only when no
\* source before it in the order signal, accept, tick, reload, tray action is ready.
C11_OneEventInPriorityOrder ==
    [][/\ One(SignalHandled) + One(AcceptHandled) + One(TickHandled) + One(ReloadHandled)
            + One(AnyTrayHandled) <= 1
       /\ AcceptHandled => signals = {}
       /\ TickHandled => (signals = {} /\ NoConnPending)
       /\ ReloadHandled => (signals = {} /\ NoConnPending /\ interval.pending = 0)
       /\ AnyTrayHandled =>
            (signals = {} /\ NoConnPending /\ interval.pending = 0 /\ reload_rx = 0)]_vars

\* a termination signal was handled although a tray action had been queued before
C11_Witness ==
    /\ handled \in Signals /\ pc = "done"
    /\ tray_action_rx # <<>>

\* ---- C12 ----
\* C12: handling Quit, like handling a termination signal, ends the loop; once ended,
\* the loop takes no event, accepts no connection and changes nothing it owns.
C12_QuitEndsLoop ==
    [][/\ (TrayHandled("Quit") \/ SignalHandled) =>
            (pc' = "done" /\ UNCHANGED <<config, suspended, tray_handle, interval, loopSync>>)
       /\ pc = "done" =>
            /\ UNCHANGED <<config, suspended, tray_handle, interval, signals, reload_rx,
                           tray_action_rx, handled, cycleLog, erred>>
            /\ UNCHANGED loopVars
            /\ \A c \in 1..MaxConns : conns[c].st = "pending" => conns'[c] = conns[c]]_vars

\* Quit was handled with another tray action queued behind it and a connection waiting
C12_Witness ==
    /\ handled = "Quit" /\ pc = "done"
    /\ (tray_action_rx # <<>> \/ \E c \in 1..MaxConns : conns[c].st = "pending")

\* ---- C13 ----
\* the period of the Interval elapses while the loop awaits a repository sync: a sync
\* (staging, commit, push) may take longer than the period, while the handlers that
\* await nothing take no time
TimerDue ==
    /\ InLoop /\ loopSync # None /\ interval.pending = 0
    /\ \A t \in tray_handle : t.error_count < MaxErrors
    /\ interval' = [interval EXCEPT !.pending = 1]
    /\ tickCredit' = IF resumed THEN tickCredit + 1 ELSE tickCredit
    /\ UNCHANGED <<config, suspended, tray_handle, conns, signals, reload_rx, tray_action_rx,
                   handled, resumed, cycleLog, erred, budget>>
    /\ UNCHANGED loopVars
    /\ UNCHANGED extVars

\* the main task: main and run_daemon, every sync it awaits returning
MainTask ==
    \/ StartupInit \/ initialize_repository_done \/ Setup
    \/ HandleSignal \/ Accept \/ IntervalTick \/ CycleStep \/ check_and_commit_done
    \/ Reload \/ ReloadInit \/ ReloadWrite \/ TrayAction \/ MainReturn
\* the tasks spawned per connection, every sync they await returning
ConnTasks ==
    \/ HandlerRead \/ HandlerExec \/ TriggerStep \/ TriggerSyncDone \/ HandlerRespond

NextLive == Next \/ TimerDue
\* the runtime keeps running every task that can run
InitLive == InitWith({ScenarioConfig}, MaxInputs)
SpecLive ==
    InitLive /\ [][NextLive]_vars /\ WF_vars(MainTask) /\ WF_vars(ConnTasks)

\* C13: every event that becomes ready is eventually taken by the loop (or the loop
\* has ended): a signal, a waiting connection, a reload notification, a tray action.
C13_EveryReadyEventHandled ==
    /\ (signals # {}) ~> Terminal
    /\ (~NoConnPending) ~> (NoConnPending \/ Terminal)
    /\ (reload_rx > 0) ~> (reload_rx = 0 \/ Terminal)
    /\ (tray_action_rx # <<>>) ~> (tray_action_rx = <<>> \/ Terminal)

\* ---- C14 ----
\* the main task is inside a handler, awaiting a repository sync
LoopAwaitsSync == pc \in {"cycle", "reload"} /\ loopSync # None
EventReady ==
    \/ signals # {} \/ ~NoConnPending \/ interval.pending > 0
    \/ reload_rx > 0 \/ tray_action_rx # <<>>

\* C14: while a sync started by the loop is in progress, the loop can take a ready event.
C14_SyncDoesNotSuspendLoop ==
    (LoopAwaitsSync /\ EventReady) =>
        ENABLED (HandleSignal \/ Accept \/ IntervalTick \/ Reload \/ TrayAction)

\* ---- C15 ----
\* C15: a reload that has initialized its new repositories replaces the shared
\* configuration without waiting for a connection's command to finish.
C15_ReloadDoesNotWaitForTrigger ==
    pc = "write" => ENABLED ReloadWrite

\* ---- C17 ----
\* C17: a connection whose request line does not decode is answered with a response of
\* status error before it is closed.
C17_ErrorResponseOnFailure ==
    [][\A c \in 1..MaxConns :
        (conns[c].st = "spawned" /\ conns[c].line = "garbage" /\ conns'[c] # conns[c]) =>
            (conns'[c].st = "respond" /\ conns'[c].resp.status = "error")]_vars

\* ---- C16 ----
\* the enabled repositories of a configuration, in configured order
EnabledOf(cfg) == SelectSeq(cfg.repositories, LAMBDA r : r.auto_commit)

\* what a step from a to b of a connection task must be
OneRequestOneResponse(a, b) ==
    /\ (a.st = "spawned" /\ a.line = "") => b = Closed
    /\ (a.st = "spawned" /\ a.line \in Commands) => b.st = "exec"
    /\ a.st = "exec" => b.st \in {"respond", "trigger"}
    /\ b.st = "respond" =>
            /\ a.st \in {"exec", "trigger"} /\ a.sync = None
            /\ a.st = "trigger" => Len(a.details) = Len(EnabledOf(config))
    /\ a.st = "respond" => b = Closed
    /\ a.st \notin {"closed", "failed"}

C18_TriggerResponseShape ==
    [][\A c \in 1..MaxConns :
        (conns[c].st = "trigger" /\ conns'[c].st = "respond") =>
            LET r == conns'[c].resp
                d == r.data.details
                en == EnabledOf(config) IN
            /\ r.status = "ok"
            /\ r.data.repos_checked = Len(en)
            /\ PathsOf(d) = PathsOf(en)
            /\ r.data.repos_committed = Cardinality({i \in 1..Len(d) : d[i].committed})
            /\ \A i \in 1..Len(d) : d[i].error => ~d[i].committed]_vars

C18_Witness ==
    \E c \in 1..MaxConns :
        /\ conns[c].st = "respond" /\ conns[c].line = "trigger"
        /\ conns[c].resp.data.repos_checked = 2
        /\ conns[c].resp.data.repos_committed = 1

\* ---- C19 ----
\* C19: a status command reports the check interval and the number of all configured
\* repositories, disabled ones included, of the configuration shared at that moment.
C19_StatusReportsActiveConfig ==
    [][\A c \in 1..MaxConns :
        (conns[c].st = "exec" /\ conns[c].line = "status" /\ conns'[c].st = "respond") =>
            LET r == conns'[c].resp IN
            /\ r.status = "ok"
            /\ r.data.check_interval_seconds = config.daemon.check_interval_seconds
            /\ r.data.repositories_count = Len(config.repositories)]_vars

\* a status accepted after a reload replaced the configuration has been computed
C19_Witness ==
    /\ config # ScenarioConfig /\ handled = "accept" /\ pc = "select"
    /\ \E e \in Entries(config) : ~e.auto_commit
    /\ \E c \in 1..MaxConns :
        /\ conns[c].st = "respond" /\ conns[c].line = "status"
        /\ conns[c].resp.data.repositories_count = Len(config.repositories)

\* ---- C20 ----
\* C20: a sync cycle of the loop and a trigger command each hand every enabled
\* repository of the configuration to check_and_commit once, in configured order,
\* whatever the outcomes of the earlier ones.
C20_CycleSyncsEveryEnabledOnce ==
    [][/\ (pc = "cycle" /\ pc' = "select") => cycleLog = PathsOf(EnabledOf(config))
       /\ pc = "cycle" => IsPrefix(cycleLog, PathsOf(EnabledOf(config)))
       /\ \A c \in 1..MaxConns :
            (conns[c].st = "trigger" /\ conns'[c].st = "respond") =>
                PathsOf(conns[c].details) = PathsOf(EnabledOf(config))]_vars

\* the second repository of a cycle is being synced after the first one failed
C20_Witness ==
    /\ pc = "cycle" /\ any_errors /\ loopSync # None
    /\ Len(cycleLog) = 2

\* ---- C21 ----
PushFailed == git.push \in {"remote_err", "spawn_err", "rejected"}
PullFailed == git.pull \in {"conflict", "failed"}
LastRan == git.ran[Len(git.ran)]

\* C21: a sync whose push step failed, for whatever reason, has attempted the pull step
\* by the time it returns.
C21_PullAfterFailedPush ==
    (Returned /\ PushFailed) => Ran("pull")

\* ---- C22 ----
\* C22: a sync returns an error only out of opening the repository, the status query,
\* staging or committing, never out of the push or the pull step.
C22_PushPullNeverError ==
    (Returned /\ OutcomeOf(git) = "error") => LastRan \notin {"push", "pull", "abort"}

\* ---- C23 ----
\* C23: a sync whose `git pull --rebase` exited with a failure has invoked the rebase
\* abort, after the pull, by the time it returns, and returns Ok whatever the abort did.
C23_FailedPullIsAborted ==
    (Returned /\ PullFailed) => (LastRan = "abort" /\ git.result = "Ok")

\* the pull hit a conflict and the abort could not even be executed
C23_Witness ==
    Returned /\ git.pull = "conflict" /\ git.abort = "spawn_err" /\ git.result = "Ok"

\* ---- C24 ----
\* C24 as stated: no sync returns with a rebase in progress in its repository.
C24_NoRebaseLeft ==
    Returned => ~git.rebase

\* C24: a sync that found no rebase in progress returns with one in progress only if
\* its rebase abort did not succeed; a conflict whose abort succeeded leaves none.
C24_RebaseLeftOnlyByFailedAbort ==
    Returned =>
        /\ git.rebase => git.abort \in {"nonzero", "spawn_err"}
        /\ (git.pull = "conflict" /\ git.abort = "ok") => ~git.rebase

\* a commit was made, the pull hit a conflict, the abort cleaned up
C24_Witness ==
    Returned /\ git.created /\ git.pull = "conflict" /\ git.abort = "ok" /\ ~git.rebase

\* ---- C25 ----
\* C25: a sync that found the working copy clean and went on to the remote steps has
\* performed the push step when origin exists and the local tip is ahead of upstream.
C25_CleanStillPushes ==
    (Returned /\ ~git.tree.dirty /\ git.tree.remote /\ git.tree.ahead /\ Ran("pull"))
        => Ran("push")

\* ---- C26 ----
\* C26: what check_and_commit reports as committed is true exactly when the sync
\* created a commit, whatever the push and the pull after it did.
C26_CommittedIffCommitCreated ==
    (Returned /\ git.fn = "check_and_commit") =>
        ((OutcomeOf(git) = "committed") <=> git.created)

\* ---- C27 ----
\* C27 as stated: after a clean shutdown no file is left at the socket path.
C27_SocketGoneAfterShutdown ==
    runtime = "shutdown" => socket_file = "none"

\* C27: a stale socket file does not keep the listener from binding, because it is
\* removed first; a clean shutdown removes the socket file, and leaves one only where
\* that removal has failed.
C27_SocketRemovedUnlessRemovalFails ==
    /\ (pc = "setup" /\ config.daemon.check_interval_seconds # 0) =>
            ENABLED (Setup /\ pc' = "select" /\ socket_file' = "file")
    /\ InLoop => socket_file = "file"
    /\ (pc = "done" /\ runtime = "running") => ENABLED (MainReturn /\ socket_file' = "none")
    /\ runtime = "shutdown" => socket_file \in {"none", "stuck"}

\* the loop was left by Quit and main has removed the socket file
C27_Witness ==
    runtime = "shutdown" /\ handled = "Quit" /\ socket_file = "none"

\* ---- C28 ----
\* the awaited sync of the main task, or of connection task who, returns
SyncReturns(who) ==
    /\ pc' = pc /\ runtime' = runtime
    /\ IF who = 0 THEN loopSync' = None /\ idx' = idx + 1 /\ conns' = conns
       ELSE conns'[who].sync = None /\ loopSync' = loopSync

\* C28: a sync that has begun is ended by nothing but its own return: not by the
\* delivery or the handling of a termination signal, not by Quit, not by main returning;
\* and as long as it is in progress its return can happen.
C28_NoSyncCancelled ==
    /\ [][\A r \in Running : r \notin Running' => SyncReturns(r[1])]_vars
    /\ [](loopSync # None => ENABLED (check_and_commit_done \/ initialize_repository_done))
    /\ [](\A c \in 1..MaxConns : conns[c].sync # None => ENABLED TriggerSyncDone)

\* main has returned after a signal while the sync of a trigger command is in progress
C28_Witness ==
    /\ runtime = "shutdown" /\ handled \in Signals
    /\ \E c \in 1..MaxConns : conns[c].st = "dropped" /\ conns[c].sync # None

\* ---- C29 ----
\* C29: until the loop has handled its first event, the repositories handed to
\* initialize_repository are, in configured order, the enabled entries of the initial
\* configuration, each once: a prefix of them during the reconciliation, all of them
\* from then on, whether main goes on into the loop or fails in its setup; and the
\* first event is handled with none of these runs still in progress.
C29_StartupInitializesAll ==
    /\ [](handled = "" =>
            IF pc = "init" THEN IsPrefix(initLog, PathsOf(EnabledOf(config)))
            ELSE initLog = PathsOf(EnabledOf(config)))
    /\ [](pc = "init" => ENABLED (StartupInit \/ initialize_repository_done))
    /\ [][(handled = "" /\ handled' # "") =>
            (pc = "select" /\ loopSync = None /\ initLog = PathsOf(EnabledOf(config)))]_vars

\* the loop waits for its first event after both repositories have been initialized
C29_Witness ==
    pc = "select" /\ handled = "" /\ Len(initLog) = 2 /\ loopSync = None

\* ---- C30 ----
\* a configuration that a reload can add a repository to: /r1 alone, enabled
OneRepoConfig ==
    [daemon |-> [check_interval_seconds |-> 1, enable_tray |-> TRUE],
     repositories |-> <<[path |-> 1, auto_commit |-> TRUE]>>]
InitReload == InitWith({OneRepoConfig}, MaxInputs + 1)
SpecReload == InitReload /\ [][Next]_vars

\* C30: the shared configuration changes only by the reload's one assignment of the
\* whole loaded value, made after every new enabled repository has been initialized and
\* its sync has returned; it does not change while a sync cycle of the loop or a
\* trigger command iterates over it.
C30_ConfigReplacedWhole ==
    [][/\ config' # config =>
            /\ pc = "write" /\ new_config # None /\ config' = The(new_config)
            /\ initLog = PathsOf(ExpectedInit(config, The(new_config)))
            /\ loopSync = None
       /\ (pc = "cycle" \/ \E c \in 1..MaxConns : conns[c].st = "trigger") => config' = config
      ]_vars

\* a reload has initialized a new repository and waits to install a different
\* configuration while a trigger command iterates over the old one
C30_Witness ==
    /\ pc = "write" /\ The(new_config) # config /\ initLog # <<>>
    /\ \E c \in 1..MaxConns : conns[c].st = "trigger" /\ conns[c].sync # None

\* ---- C31 ----
\* C31: a reload that installs its configuration leaves the loop running with the
\* Interval re-armed to the new period if the period has changed, and with the Interval
\* as it was if it has not.
C31_RearmIffIntervalChanged ==
    [][(pc = "write" /\ pc' # "write") =>
            LET old == config.daemon.check_interval_seconds
                new == The(new_config).daemon.check_interval_seconds IN
            IF old # new THEN pc' = "select" /\ interval'.period = new
            ELSE interval' = interval]_vars

\* ---- C39 ----
\* C39: the loop starts with no tick due, and a tick that starts an automatic cycle is
\* never the one a newly created Interval completes at once: a period has elapsed.
C39_NoCycleBeforeIntervalElapsed ==
    [][/\ (pc = "setup" /\ pc' = "select") => interval'.pending = 0
       /\ (TickHandled /\ pc' = "cycle") => ~interval.immediate]_vars

\* ---- C32 ----
StartsWith(str, w) == Len(str) >= Len(w) /\ SubSeq(str, 1, Len(w)) = w
\* a placeholder occurs somewhere in str
HasToken(str) ==
    \E i \in 1..Len(str), w \in {TokenTimestamp, TokenDate, TokenTime} :
        StartsWith(SubSeq(str, i, Len(str)), w)
ValueOf(w, now) ==
    CASE w = TokenTimestamp -> strftime(now, "%Y-%m-%d %H:%M:%S")
      [] w = TokenDate -> strftime(now, "%Y-%m-%d")
      [] w = TokenTime -> strftime(now, "%H:%M:%S")
\* one pass from the left: a placeholder becomes its value at the one instant, any
\* other character is copied
RECURSIVE Substituted(_, _)
Substituted(str, now) ==
    IF str = <<>> THEN <<>>
    ELSE IF \E w \in {TokenTimestamp, TokenDate, TokenTime} : StartsWith(str, w)
    THEN LET w == CHOOSE v \in {TokenTimestamp, TokenDate, TokenTime} : StartsWith(str, v) IN
         ValueOf(w, now) \o Substituted(SubSeq(str, Len(w) + 1, Len(str)), now)
    ELSE <<Head(str)>> \o Substituted(Tail(str), now)

\* C32: the message is the template with every occurrence of {timestamp}, {date} and
\* {time} replaced by its value at one instant and every other character kept; a
\* template without a placeholder comes back unchanged.
C32_LiteralSubstitution ==
    \A m \in commit_message.out :
        /\ m = Substituted(commit_message.template, commit_message.now)
        /\ ~HasToken(commit_message.template) => m = commit_message.template

\* "{date}{date}" has become the same date twice
C32_Witness ==
    /\ commit_message.template = TokenDate \o TokenDate
    /\ commit_message.out =
            Some(strftime(commit_message.now, "%Y-%m-%d")
                    \o strftime(commit_message.now, "%Y-%m-%d"))

\* ---- C35 ----
\* C35: a sync that reaches the commit step in a repository where user.name or
\* user.email is not set returns an error, has created no commit, and has attempted
\* neither the push nor the pull.
C35_NoIdentityNoCommit ==
    (Returned /\ Ran("commit") /\ ~git.tree.identity) =>
        /\ git.result = "Err"
        /\ ~git.created /\ ~git.committed
        /\ ~Ran("push") /\ ~Ran("pull")

\* check_and_commit has staged changes without an identity and has returned
C35_Witness ==
    /\ Returned /\ git.fn = "check_and_commit"
    /\ git.tree.dirty /\ git.tree.stageable /\ ~git.tree.identity
    /\ LastRan = "commit"

\* ---- C36 ----
\* C36: handling ToggleSuspend negates the suspended flag and leaves the configuration,
\* the timer, the tray handle and the connections as they are, and starts no sync;
\* nothing else writes the flag, so the second of two toggles restores its value.
C36_ToggleOnlyNegates ==
    [][/\ TrayHandled("ToggleSuspend") =>
            /\ suspended' = ~suspended
            /\ UNCHANGED <<config, interval, tray_handle, conns, config_file, git>>
            /\ UNCHANGED loopVars /\ cycleLog' = cycleLog
       /\ suspended' # suspended => TrayHandled("ToggleSuspend")]_vars

\* a second toggle has turned the suspension off again
C36_Witness ==
    handled = "ToggleSuspend" /\ resumed /\ ~suspended /\ tray_action_rx = <<>>

\* ---- C33 ----
\* C33: the syncs the loop itself drives never overlap: the loop begins a cycle or the
\* initializations of a reload only out of its select, with no sync of its own in
\* progress; it leaves a cycle only back to the select, after every enabled repository
\* of the configuration has been synced in order and the last sync has returned; and
\* between the two it takes no event.
C33_CyclesNeverOverlap ==
    [][/\ (pc' \in {"cycle", "reload"} /\ pc' # pc) =>
            (pc = "select" /\ loopSync = None /\ loopSync' = None)
       /\ (pc = "cycle" /\ pc' # "cycle") =>
            /\ pc' = "select" /\ loopSync = None /\ loopSync' = None
            /\ cycleLog = PathsOf(SelectSeq(config.repositories, LAMBDA r : r.auto_commit))
       /\ pc \in {"cycle", "reload", "write"} =>
            /\ handled' = handled
            /\ signals \subseteq signals' /\ reload_rx' >= reload_rx
            /\ Len(tray_action_rx') >= Len(tray_action_rx)
            /\ interval'.pending >= interval.pending \/ pc = "write"
       /\ pc = "cycle" => config' = config]_vars

\* a cycle over two repositories has finished while a tick and a reload were waiting
C33_Witness ==
    /\ pc = "select" /\ handled \in {"tick", "TriggerSync"}
    /\ Len(SelectSeq(config.repositories, LAMBDA r : r.auto_commit)) = 2
    /\ \E t \in tray_handle : t.status # "Syncing"
    /\ interval.pending > 0 \/ reload_rx > 0

\* ---- C34 ----
\* C34: with a tray present, a cycle that is not skipped sets the status to Syncing
\* before its first sync and keeps it there while it runs; when it ends the status is
\* Error and error_count one higher exactly if a sync of the cycle returned an error,
\* and otherwise Idle with last_sync set; the status is Syncing only inside a cycle.
C34_TrayStatusFollowsCycle ==
    [][/\ (pc = "select" /\ pc' = "cycle") =>
            tray_handle' = {[t EXCEPT !.status = "Syncing"] : t \in tray_handle}
       /\ (pc = "cycle" /\ pc' = "cycle") =>
            (tray_handle' = tray_handle /\ \A t \in tray_handle : t.status = "Syncing")
       /\ (pc = "cycle" /\ pc' # "cycle") =>
            tray_handle' =
                {IF erred
                 THEN [t EXCEPT !.status = "Error", !.error_count = t.error_count + 1]
                 ELSE [t EXCEPT !.status = "Idle", !.last_sync = TRUE] : t \in tray_handle}
       /\ pc' # "cycle" => \A t \in tray_handle' : t.status # "Syncing"]_vars

\* a cycle over two repositories, one of which failed, has ended in Error
C34_Witness ==
    /\ pc = "select" /\ erred /\ handled \in {"tick", "TriggerSync"}
    /\ Len(SelectSeq(config.repositories, LAMBDA r : r.auto_commit)) = 2
    /\ \E t \in tray_handle : t.status = "Error" /\ t.error_count = 1

\* ---- C37 ----
\* what the CLI saves: `repo.auto_commit = enabled; config.save(&config_path)` on /r2
SavedConfig ==
    [ScenarioConfig EXCEPT !.repositories[2].auto_commit = TRUE]

\* Config::save, first half: std::fs::write opens the file with truncation, and the
\* watcher callback sends the notification of that modify event
SaveTruncate ==
    /\ InLoop /\ budget >= ReloadCost /\ reload_rx < ChannelCapacity
    /\ config_file.kind = "config"
    /\ budget' = budget - ReloadCost
    /\ config_file' = TruncatedFor(SavedConfig)
    /\ reload_rx' = reload_rx + 1
    /\ UNCHANGED <<config, suspended, tray_handle, interval, conns, signals, tray_action_rx>>
    /\ UNCHANGED loopVars /\ UNCHANGED histVars
    /\ UNCHANGED <<socket_file, runtime, git, commit_message>>

\* Config::save, second half: the content is written, and the callback sends the
\* notification of this modify event
SaveWrite ==
    /\ config_file.kind = "truncated" /\ reload_rx < ChannelCapacity
    /\ runtime = "running"
    /\ config_file' = FileOf(The(config_file.value))
    /\ reload_rx' = reload_rx + 1
    /\ UNCHANGED <<config, suspended, tray_handle, interval, conns, signals, tray_action_rx,
                   budget>>
    /\ UNCHANGED loopVars /\ UNCHANGED histVars
    /\ UNCHANGED <<socket_file, runtime, git, commit_message>>

\* the daemon beside a CLI that saves the configuration; no other writer of the file
NextSave ==
    \/ StartupInit
    \/ initialize_repository_done
    \/ Setup
    \/ TimerFire
    \/ TimerDue
    \/ SaveTruncate
    \/ SaveWrite
    \/ TrayClick
    \/ SignalDelivered
    \/ Connect
    \/ HandleSignal
    \/ Accept
    \/ IntervalTick
    \/ CycleStep
    \/ check_and_commit_done
    \/ Reload
    \/ ReloadInit
    \/ ReloadWrite
    \/ TrayAction
    \/ HandlerRead
    \/ HandlerExec
    \/ TriggerStep
    \/ TriggerSyncDone
    \/ HandlerRespond
    \/ MainReturn
\* the runtime keeps running every task that can run, and a save that has truncated
\* the file goes on to write it
InitSave == InitWith({ScenarioConfig}, MaxInputs + 1)
SpecSave ==
    InitSave /\ [][NextSave]_vars /\ WF_vars(MainTask) /\ WF_vars(ConnTasks)
        /\ WF_vars(SaveWrite)

\* C37: the active configuration is always the initial one or one that a writer passed
\* whole to save, and a reload never initializes a repository that is already tracked.
C37_OnlySavedConfigs ==
    /\ config \in {ScenarioConfig, SavedConfig}
    /\ \A i \in 1..Len(initLog) :
            pc \in {"reload", "write"} => initLog[i] \notin {1}

\* ---- C38 ----
\* C38: once the file holds its final, valid content, the active configuration
\* eventually equals that content, unless the daemon has ended.
C38_ReloadConverges ==
    (config_file = FileOf(SavedConfig)) ~> (config = SavedConfig \/ Terminal)

\* ---- C40 ----
\* C40: every request for a guard of the shared configuration is granted in the end:
\* the write guard the reload asks for, and the read guard a status or trigger command
\* asks for (which waits behind a queued writer), unless shutdown drops the task first.
C40_LockRequestsGranted ==
    /\ (pc = "write") ~> (pc # "write")
    /\ \A c \in 1..MaxConns : (conns[c].st = "exec") ~> (conns[c].st # "exec")

\* the reload waits for the write guard while a trigger command syncs under its read guard
C40_Witness ==
    /\ WriterQueued
    /\ \E c \in Readers : conns[c].sync # None
====
